---- MODULE Spec2Model ----
(***************************************************************************)
(* Model of reporters/custom-junit-reporter.js: CustomJunitReporter turns  *)
(* a finished jest RunResult into a JUnit XML tree and writes it to        *)
(* outputDirectory/outputName.                                             *)
(*                                                                         *)
(* Strings of the program are sequences of one-character strings, so that  *)
(* join, split and basename are computed as the code computes them.  The   *)
(* character U+203A (the single right-pointing angle quotation mark of the *)
(* classname separator) is written "U+203A".                               *)
(***************************************************************************)
EXTENDS Integers, Sequences, FiniteSets, TLC

VARIABLES given,       \* the RunResult as it was handed to onRunComplete
          results,     \* that RunResult object after the call (NoRun before it)
          now,         \* what Date.now() returned inside the call
          host,        \* what os.hostname() returned inside the call
          doc,         \* the XML tree the call built (NoDoc: not built)
          thrown,      \* the error that left onRunComplete ("none": it returned)
          called,      \* whether onRunComplete has run
          fs,          \* the filesystem: [dirs |-> the directories that exist,
                       \*                  files |-> path -> content]
          ops,         \* the filesystem calls of the last onRunComplete, in order
          prev,        \* the call before the last one (NoCall: there was none)
          options,     \* the options argument of the constructor
          outputDir,   \* this._outputDir
          outputFile,  \* this._outputFile
          pc,          \* two concurrent runs: the line each is about to execute
          run,         \* two concurrent runs: what each has done so far
          svc,         \* the mood-journal service the test suites call
          suite        \* the test file that is running and how far it has got

vars ==
  <<given, results, now, host, doc, thrown, called, fs, ops, prev, options, outputDir,
    outputFile, pc, run, svc, suite>>

-----------------------------------------------------------------------------
(* Bounds of the model. *)

MaxSuites == 2     \* suites per RunResult
MaxCases == 2      \* cases per suite
MaxCount == 3      \* the numXxxTests counters range over 0..MaxCount
MaxTitles == 2     \* ancestor titles per case
MaxMsgs == 2       \* failure messages per case

-----------------------------------------------------------------------------
(* JavaScript values that are not strings or numbers. *)

\* An optional field holds Undefined (the property is missing), Null, or its
\* value wrapped in a record: Num(n) for a number, Str(s) for a string, the
\* object itself for an object.
Undefined == [js |-> "undefined"]
Null == [js |-> "null"]
Num(n) == [num |-> n]
Str(s) == [str |-> s]

NL == "\n"

\* All sequences over S of length 0..n.
SeqUpTo(S, n) == UNION {[1..k -> S] : k \in 0..n}

-----------------------------------------------------------------------------
(* String and number primitives of the platform, as the code uses them. *)

Digit(d) == <<"0", "1", "2", "3", "4", "5", "6", "7", "8", "9">>[d + 1]

\* Number.prototype.toString of a non-negative integer.
RECURSIVE Dec(_)
Dec(n) == IF n < 10 THEN <<Digit(n)>> ELSE Append(Dec(n \div 10), Digit(n % 10))

\* String(n) of an integer: what an attribute holds for a number value.
NumStr(n) == IF n < 0 THEN <<"-">> \o Dec(0 - n) ELSE Dec(n)

\* (ms / 1000).toFixed(3) of an integer number of milliseconds.
ToFixed3Abs(ms) ==
  Dec(ms \div 1000) \o <<".", Digit((ms % 1000) \div 100),
                         Digit((ms % 100) \div 10), Digit(ms % 10)>>

ToFixed3(ms) == IF ms < 0 THEN <<"-">> \o ToFixed3Abs(0 - ms) ELSE ToFixed3Abs(ms)

\* new Date(ms).toISOString() for an instant of the first minute of the epoch.
ToISOString(ms) ==
  <<"1","9","7","0","-","0","1","-","0","1","T","0","0",":","0","0",":">>
    \o <<Digit(ms \div 10000), Digit((ms \div 1000) % 10), ".",
         Digit((ms % 1000) \div 100), Digit((ms % 100) \div 10), Digit(ms % 10), "Z">>

\* Array.prototype.join(sep) of an array of strings.
RECURSIVE Join(_, _)
Join(strs, sep) ==
  IF Len(strs) = 0 THEN <<>>
  ELSE IF Len(strs) = 1 THEN strs[1]
  ELSE strs[1] \o sep \o Join(Tail(strs), sep)

\* Mutant of FirstLine: the first newline is kept at the end of the line.
RECURSIVE FirstLineWithNewline(_)
FirstLineWithNewline(s) ==
  IF Len(s) = 0 THEN <<>>
  ELSE IF Head(s) = NL THEN <<NL>>
  ELSE <<Head(s)>> \o FirstLineWithNewline(Tail(s))

\* Mutant of FirstLine: the text is not split at all.
FirstLineWhole(s) == s

\* s.split('\n', 1)[0]: the text before the first newline (all of s if none).
RECURSIVE FirstLine(_)
FirstLine(s) ==
  IF Len(s) = 0 \/ Head(s) = NL THEN <<>> ELSE <<Head(s)>> \o FirstLine(Tail(s))

\* path.basename(p) (posix): trailing slashes are dropped, then the text after
\* the last remaining slash is returned.
RECURSIVE StripSlashes(_)
StripSlashes(p) ==
  IF Len(p) > 0 /\ p[Len(p)] = "/" THEN StripSlashes(SubSeq(p, 1, Len(p) - 1)) ELSE p

RECURSIVE LastSegment(_)
LastSegment(p) ==
  IF Len(p) = 0 \/ p[Len(p)] = "/" THEN <<>>
  ELSE Append(LastSegment(SubSeq(p, 1, Len(p) - 1)), p[Len(p)])

\* Mutant of Basename: the path is used as it is.
BasenameWhole(p) == p

Basename(p) == LastSegment(StripSlashes(p))

-----------------------------------------------------------------------------
(* The formatter: onRunComplete lines 15-57. *)

Sep == <<" ", "U+203A", " ">>

\* assertion.location.file || '' : the TypeError of reading .file of
\* undefined or null is CaseError's.
LocationFile(a) ==
  IF a.location.file = Undefined THEN <<>> ELSE a.location.file.str

\* line 40
ClassName(a) ==
  LET joined == Join(a.ancestorTitles, Sep)
  IN IF joined # <<>> THEN joined ELSE Basename(LocationFile(a))

\* Mutant of CaseTime: the milliseconds are not divided by 1000.
CaseTimeMillis(a) ==
  IF a.duration \notin {Undefined, Null} THEN ToFixed3(1000 * a.duration.num)
  ELSE <<"0",".","0","0","0">>

\* line 42
CaseTime(a) ==
  IF a.duration \notin {Undefined, Null} THEN ToFixed3(a.duration.num)
  ELSE <<"0",".","0","0","0">>

\* Mutant of FailureChildren: any case that carries failure messages gets a
\* failure child, whatever its status.
FailureChildrenByMessages(a) ==
  IF a.status = "failed" \/ Len(a.failureMessages) > 0
  THEN LET fullMsg == Join(a.failureMessages, <<NL>>)
       IN <<[tag |-> "failure", message |-> FirstLine(fullMsg), text |-> fullMsg]>>
  ELSE <<>>

\* lines 45-49
FailureChildren(a) ==
  IF a.status = "failed"
  THEN LET fullMsg == Join(a.failureMessages, <<NL>>)
       IN <<[tag |-> "failure", message |-> FirstLine(fullMsg), text |-> fullMsg]>>
  ELSE <<>>

\* lines 39-52: one testcase element
TestCase(a) ==
  [tag |-> "testcase", classname |-> ClassName(a), name |-> a.title,
   time |-> CaseTime(a), children |-> FailureChildren(a)]

\* The error a case makes the loop body throw ("none": it completes).
CaseError(a) ==
  IF Join(a.ancestorTitles, Sep) = <<>> /\ a.location \in {Undefined, Null}
  THEN "TypeError" ELSE "none"

\* Mutant of SuiteTests: the pending tests are left out of the sum.
SuiteTestsNoPending(s) == s.numPassingTests + s.numFailingTests

\* line 36
SuiteTests(s) == s.numPassingTests + s.numFailingTests + s.numPendingTests

\* Mutant of TestSuite: each testcase is put before the earlier ones.
TestSuiteReversed(s) ==
  [tag |-> "testsuite", name |-> s.name, errors |-> NumStr(0),
   failures |-> NumStr(s.numFailingTests), skipped |-> NumStr(s.numPendingTests),
   timestamp |-> ToISOString(s.perfStats.start),
   time |-> ToFixed3(s.perfStats.end - s.perfStats.start),
   tests |-> NumStr(SuiteTests(s)),
   children |-> [j \in 1..Len(s.testResults) |->
                   TestCase(s.testResults[Len(s.testResults) + 1 - j])]]

\* Mutant of TestSuite: failures is counted from the cases with status failed.
TestSuiteFailuresCounted(s) ==
  [tag |-> "testsuite", name |-> s.name, errors |-> NumStr(0),
   failures |->
     NumStr(Cardinality({j \in 1..Len(s.testResults) :
                           s.testResults[j].status = "failed"})),
   skipped |-> NumStr(s.numPendingTests),
   timestamp |-> ToISOString(s.perfStats.start),
   time |-> ToFixed3(s.perfStats.end - s.perfStats.start),
   tests |-> NumStr(SuiteTests(s)),
   children |-> [j \in 1..Len(s.testResults) |-> TestCase(s.testResults[j])]]

\* Mutant of TestSuite: skipped is taken from the failing count.
TestSuiteSkippedFromFailing(s) ==
  [tag |-> "testsuite", name |-> s.name, errors |-> NumStr(0),
   failures |-> NumStr(s.numFailingTests), skipped |-> NumStr(s.numFailingTests),
   timestamp |-> ToISOString(s.perfStats.start),
   time |-> ToFixed3(s.perfStats.end - s.perfStats.start),
   tests |-> NumStr(SuiteTests(s)),
   children |-> [j \in 1..Len(s.testResults) |-> TestCase(s.testResults[j])]]

\* lines 28-54: one testsuite element
TestSuite(s) ==
  [tag |-> "testsuite", name |-> s.name, errors |-> NumStr(0),
   failures |-> NumStr(s.numFailingTests), skipped |-> NumStr(s.numPendingTests),
   timestamp |-> ToISOString(s.perfStats.start),
   time |-> ToFixed3(s.perfStats.end - s.perfStats.start),
   tests |-> NumStr(SuiteTests(s)),
   children |-> [j \in 1..Len(s.testResults) |-> TestCase(s.testResults[j])]]

\* The error a suite makes the loop body throw: reading .end of a missing
\* perfStats (line 28), else the first error of its cases.
SuiteError(s) ==
  IF s.perfStats \in {Undefined, Null} THEN "TypeError"
  ELSE IF \E j \in 1..Len(s.testResults) : CaseError(s.testResults[j]) # "none"
  THEN "TypeError" ELSE "none"

\* Mutant of RootTests: the failed count is written where the total belongs.
RootTestsFromFailed(r) == NumStr(r.numFailedTests)

\* line 19
RootTests(r) == NumStr(r.numTotalTests)

\* Mutant of RootFailures: failures is fixed at 0 like errors.
RootFailuresZero(r) == NumStr(0)

\* line 20
RootFailures(r) == NumStr(r.numFailedTests)

\* Mutant of Root: a run without suites gets one empty testsuite element.
RootPlaceholderSuite(r, t, h) ==
  [tag |-> "testsuites", name |-> <<"j","e","s","t"," ","t","e","s","t","s">>,
   tests |-> RootTests(r), failures |-> RootFailures(r),
   errors |-> NumStr(0), time |-> ToFixed3(t - r.startTime),
   timestamp |-> ToISOString(r.startTime), hostname |-> h,
   children |->
     IF Len(r.testResults) = 0
     THEN <<[tag |-> "testsuite", name |-> <<>>, errors |-> NumStr(0),
             failures |-> NumStr(0), skipped |-> NumStr(0),
             timestamp |-> ToISOString(r.startTime), time |-> ToFixed3(0),
             tests |-> NumStr(0), children |-> <<>>]>>
     ELSE [i \in 1..Len(r.testResults) |-> TestSuite(r.testResults[i])]]

\* Mutant of Root: the moment of writing is appended to the name attribute.
RootNamedByClock(r, t, h) ==
  [tag |-> "testsuites",
   name |-> <<"j","e","s","t"," ","t","e","s","t","s"," ">> \o ToISOString(t),
   tests |-> RootTests(r), failures |-> RootFailures(r),
   errors |-> NumStr(0), time |-> ToFixed3(t - r.startTime),
   timestamp |-> ToISOString(r.startTime), hostname |-> h,
   children |-> [i \in 1..Len(r.testResults) |-> TestSuite(r.testResults[i])]]

\* Mutant of Root: the root timestamp is the moment of writing.
RootStampedNow(r, t, h) ==
  [tag |-> "testsuites", name |-> <<"j","e","s","t"," ","t","e","s","t","s">>,
   tests |-> RootTests(r), failures |-> RootFailures(r),
   errors |-> NumStr(0), time |-> ToFixed3(t - r.startTime),
   timestamp |-> ToISOString(t), hostname |-> h,
   children |-> [i \in 1..Len(r.testResults) |-> TestSuite(r.testResults[i])]]

\* lines 15-25 and the loop: the testsuites tree, with Date.now() = t and
\* os.hostname() = h
Root(r, t, h) ==
  [tag |-> "testsuites", name |-> <<"j","e","s","t"," ","t","e","s","t","s">>,
   tests |-> RootTests(r), failures |-> RootFailures(r),
   errors |-> NumStr(0), time |-> ToFixed3(t - r.startTime),
   timestamp |-> ToISOString(r.startTime), hostname |-> h,
   children |-> [i \in 1..Len(r.testResults) |-> TestSuite(r.testResults[i])]]

\* line 57: root.end(): the document is the XML declaration and the tree.
End(root) == [version |-> "1.0", encoding |-> "UTF-8", root |-> root]

\* The error the formatting of r throws ("none": it completes).
FormatError(r) ==
  IF \E i \in 1..Len(r.testResults) : SuiteError(r.testResults[i]) # "none"
  THEN "TypeError" ELSE "none"

-----------------------------------------------------------------------------
(* The inputs. *)

DefaultLocation == [file |-> Str(<<"/","x","/","s">>)]

\* Titles: the empty title and two one-letter titles.
TitleStrs == {<<>>, <<"A">>, <<"B">>}
Paths == {<<>>, <<"s">>, <<"/","x","/","s">>, <<"x","/">>}
Locations == {Undefined, Null, [file |-> Undefined]} \cup {[file |-> Str(p)] : p \in Paths}
Statuses == {"passed", "failed", "pending", "todo"}
Durations == {Undefined, Null, Num(0), Num(7), Num(1500)}
MsgStrs == {<<>>, <<"e">>, <<"e", NL, "s">>}

\* The cases the many-suite inputs are built from.
PassedCase ==
  [ancestorTitles |-> <<<<"A">>>>, title |-> <<"t">>, status |-> "passed",
   duration |-> Num(7), failureMessages |-> <<>>, location |-> Null]

FailedCase ==
  [ancestorTitles |-> <<>>, title |-> <<"u">>, status |-> "failed",
   duration |-> Null, failureMessages |-> <<<<"e", NL, "s">>>>,
   location |-> DefaultLocation]

PlainCases == {PassedCase, FailedCase}

\* A top-level test of a run without testLocationInResults: no ancestor
\* titles, location null.
UnlocatedCase == [PassedCase EXCEPT !.ancestorTitles = <<>>]

DefaultPerf == [start |-> 1000, end |-> 2500]
PerfStats == {Undefined, Null} \cup [start : {0, 1000}, end : {1000, 2500}]

\* How many of the cases have the status st.
CountStatus(cases, st) == Cardinality({j \in 1..Len(cases) : cases[j].status = st})

\* A suite as the collector hands it over: its counts are those of its cases.
SuiteOf(cases) ==
  [name |-> <<"f">>, perfStats |-> DefaultPerf,
   numFailingTests |-> CountStatus(cases, "failed"),
   numPassingTests |-> CountStatus(cases, "passed"),
   numPendingTests |-> CountStatus(cases, "pending"), testResults |-> cases]

RunOf(suites, total, failed) ==
  [startTime |-> 1000, numTotalTests |-> total, numFailedTests |-> failed,
   testResults |-> suites]

Clock == {1000, 2500}         \* Date.now()
Hosts == {<<"h">>, <<"g">>}   \* os.hostname()
DefaultHost == <<"h">>

-----------------------------------------------------------------------------
(* The constructor: lines 7-12. *)

TestReports == <<"t","e","s","t","-","r","e","p","o","r","t","s">>
CustomResultsXml ==
  <<"c","u","s","t","o","m","-","r","e","s","u","l","t","s",".","x","m","l">>
ResultsXml == <<"r","e","s","u","l","t","s",".","x","m","l">>

\* The empty options object {}.
NoOptions == [outputDirectory |-> Undefined, outputName |-> Undefined]

\* jest.config.js lines 8-11
JestConfig == [outputDirectory |-> Str(TestReports), outputName |-> Str(ResultsXml)]

\* line 9: options || {}
Options(o) == IF o \in {Undefined, Null} THEN NoOptions ELSE o

\* Mutant of OrDefault: only a missing value is defaulted (v ?? d).
OrDefaultNullish(v, d) == IF v \in {Undefined, Null} THEN d ELSE v.str

\* v || d of an optional string: undefined, null and '' are falsy.
OrDefault(v, d) == IF v \in {Undefined, Null, Str(<<>>)} THEN d ELSE v.str

\* line 10
OutputDir(o) == OrDefault(Options(o).outputDirectory, TestReports)

\* Mutant of OutputFile: the default name is that of jest.config.js.
OutputFileResults(o) == OrDefault(Options(o).outputName, ResultsXml)

\* line 11
OutputFile(o) == OrDefault(Options(o).outputName, CustomResultsXml)

\* What a caller may pass as options.
OptionSets ==
  {Undefined, NoOptions, JestConfig,
   [outputDirectory |-> Str(<<"a","/","b">>), outputName |-> Undefined],
   [outputDirectory |-> Undefined, outputName |-> Str(<<"r">>)],
   [outputDirectory |-> Str(<<>>), outputName |-> Str(<<>>)]}

-----------------------------------------------------------------------------
(* The filesystem calls of lines 58-61, on relative paths without "." and  *)
(* ".." segments.                                                          *)

\* The path and the directories above it, the working directory aside.
Ancestors(p) ==
  {SubSeq(p, 1, k - 1) : k \in {k \in 2..Len(p) : p[k] = "/"}} \cup {p}

\* The directory a path lies in (<<>>: the working directory).
RECURSIVE Dirname(_)
Dirname(p) ==
  IF Len(p) = 0 THEN <<>>
  ELSE IF p[Len(p)] = "/" THEN SubSeq(p, 1, Len(p) - 1)
  ELSE Dirname(SubSeq(p, 1, Len(p) - 1))

DirExists(f, d) == d = <<>> \/ d \in f.dirs

\* Mutant of PathJoin: the directory is left out of the path.
PathJoinDropDir(d, f) == f

\* path.join(dir, file)
PathJoin(d, f) ==
  IF Len(d) = 0 THEN f
  ELSE IF d[Len(d)] = "/" THEN d \o f
  ELSE d \o <<"/">> \o f

\* fs.existsSync(p)
ExistsSync(f, p) == p \in f.dirs \/ p \in DOMAIN f.files

\* What the environment does to the filesystem calls of one onRunComplete:
\* nothing, mkdirSync is refused, writeFileSync cannot open the file, or the
\* disk fills up while writeFileSync writes.
Faults == {"none", "mkdir", "open", "full"}

\* Mutant of MkdirOptions: mkdirSync without { recursive: true }.
MkdirOptionsDefault == [recursive |-> FALSE]

\* line 59: the options of mkdirSync
MkdirOptions == [recursive |-> TRUE]

\* Mutant of MkdirSync: a directory that is there already is an error, also
\* with { recursive: true }.
MkdirSyncStrict(f, p, opts, fault) ==
  IF p \in f.dirs THEN {[fs |-> f, error |-> "EEXIST"]}
  ELSE IF opts.recursive
  THEN IF fault = "mkdir"
       THEN {[fs |-> [f EXCEPT !.dirs = @ \cup Ancestors(q)], error |-> "EACCES"] :
               q \in Ancestors(p) \ {p}}
              \cup {[fs |-> f, error |-> "EACCES"]}
       ELSE {[fs |-> [f EXCEPT !.dirs = @ \cup Ancestors(p)], error |-> "none"]}
  ELSE IF ~DirExists(f, Dirname(p)) THEN {[fs |-> f, error |-> "ENOENT"]}
       ELSE IF fault = "mkdir" THEN {[fs |-> f, error |-> "EACCES"]}
       ELSE {[fs |-> [f EXCEPT !.dirs = @ \cup {p}], error |-> "none"]}

\* fs.mkdirSync(p, opts): the set of [fs, error] it may end in.  A refused
\* recursive mkdir may have made some of the directories above p.
MkdirSync(f, p, opts, fault) ==
  IF opts.recursive
  THEN IF fault = "mkdir"
       THEN {[fs |-> [f EXCEPT !.dirs = @ \cup Ancestors(q)], error |-> "EACCES"] :
               q \in Ancestors(p) \ {p}}
              \cup {[fs |-> f, error |-> "EACCES"]}
       ELSE {[fs |-> [f EXCEPT !.dirs = @ \cup Ancestors(p)], error |-> "none"]}
  ELSE IF p \in f.dirs THEN {[fs |-> f, error |-> "EEXIST"]}
       ELSE IF ~DirExists(f, Dirname(p)) THEN {[fs |-> f, error |-> "ENOENT"]}
       ELSE IF fault = "mkdir" THEN {[fs |-> f, error |-> "EACCES"]}
       ELSE {[fs |-> [f EXCEPT !.dirs = @ \cup {p}], error |-> "none"]}

\* What a file holds after a write that the full disk cut short.
Partial == [tag |-> "partial"]

\* Mutant of WithFile: a file that is there already keeps its content.
WithFileKeepFirst(f, p, data) ==
  IF p \in DOMAIN f.files THEN f
  ELSE [f EXCEPT !.files = [q \in DOMAIN f.files \cup {p} |->
                              IF q = p THEN data ELSE f.files[q]]]

\* The files of f with path p holding data.
WithFile(f, p, data) ==
  [f EXCEPT !.files = [q \in DOMAIN f.files \cup {p} |->
                         IF q = p THEN data ELSE f.files[q]]]

\* fs.writeFileSync(p, data, 'utf-8'): the set of [fs, error] it may end in.
\* The file is opened for writing, which truncates it, and is then written.
WriteFileSync(f, p, data, fault) ==
  IF ~DirExists(f, Dirname(p)) THEN {[fs |-> f, error |-> "ENOENT"]}
  ELSE IF fault = "open" THEN {[fs |-> f, error |-> "EACCES"]}
  ELSE IF fault = "full" THEN {[fs |-> WithFile(f, p, Partial), error |-> "ENOSPC"]}
  ELSE {[fs |-> WithFile(f, p, data), error |-> "none"]}

\* One filesystem call: what was called, on which path, and the error it
\* threw ("none": it returned).
Op(name, path, error) == [op |-> name, path |-> path, error |-> error]

\* lines 58-61: the set of [fs, error, ops] the writing step may end in.
Writer(f, dir, file, xml, fault) ==
  LET exists == ExistsSync(f, dir)
      checked == <<Op("existsSync", dir, "none")>>
      made == IF exists THEN {[fs |-> f, error |-> "none", ops |-> checked]}
              ELSE {[fs |-> m.fs, error |-> m.error,
                     ops |-> Append(checked, Op("mkdirSync", dir, m.error))] :
                      m \in MkdirSync(f, dir, MkdirOptions, fault)}
  IN UNION {IF m.error # "none"
            THEN {m}
            ELSE {[fs |-> w.fs, error |-> w.error,
                   ops |-> Append(m.ops,
                                  Op("writeFileSync", PathJoin(dir, file), w.error))] :
                    w \in WriteFileSync(m.fs, PathJoin(dir, file), xml, fault)} :
            m \in made}

-----------------------------------------------------------------------------
(* The HTTP test suites and the contract they assert of the mood-journal   *)
(* service.  The service is not part of the repository: what is modelled   *)
(* of it is what the requests of the test files need to be answered as     *)
(* asserted.                                                               *)

NotAUuid == -1       \* 'not-a-uuid', and the id of an entry that was not made
ZeroUuid == 0        \* '00000000-0000-0000-0000-000000000000'
Unasserted == 0      \* the test does not look at the status
Ok == 200
Created == 201
NoContent == 204
BadRequest == 400
NotFound == 404
ServerError == 500

\* How a service may answer an id that is not a UUID: the test files do not
\* agree on it.
MalformedAnswers == {BadRequest, NotFound}

\* A service without entries that answers a malformed id with m.
Service(m) == [entries |-> {}, issued |-> 0, malformed |-> m]

\* One request of a test: the test it is in, the request, the id it names
\* ("entry": the id the suite keeps), where the id of a created entry goes,
\* the asserted status and the asserted number of listed entries.
Request(test, req, id, into, expect, count) ==
  [test |-> test, req |-> req, id |-> id, into |-> into, expect |-> expect,
   count |-> count]

NoRequest == Request(0, "none", "none", "none", Unasserted, "any")

\* Mutant of Respond: DELETE answers 204 and keeps the entry.
RespondKeepsDeleted(s, q, id, refused) ==
  IF refused THEN [status |-> ServerError, svc |-> s, id |-> NotAUuid]
  ELSE IF q.req = "POST"
  THEN [status |-> Created,
        svc |-> [s EXCEPT !.entries = @ \cup {s.issued + 1}, !.issued = @ + 1],
        id |-> s.issued + 1]
  ELSE IF q.req \in {"POSTBAD", "READBAD"}
  THEN [status |-> BadRequest, svc |-> s, id |-> NotAUuid]
  ELSE IF q.req \in {"LIST", "READ"} THEN [status |-> Ok, svc |-> s, id |-> NotAUuid]
  ELSE IF id = NotAUuid THEN [status |-> s.malformed, svc |-> s, id |-> id]
  ELSE IF id \notin s.entries THEN [status |-> NotFound, svc |-> s, id |-> id]
  ELSE IF q.req = "PUTBAD" THEN [status |-> BadRequest, svc |-> s, id |-> id]
  ELSE IF q.req = "DELETE" THEN [status |-> NoContent, svc |-> s, id |-> id]
  ELSE [status |-> Ok, svc |-> s, id |-> id]

\* The answer to request q naming id, and the service after it.  A refused
\* request is answered 500 and changes nothing.
Respond(s, q, id, refused) ==
  IF refused THEN [status |-> ServerError, svc |-> s, id |-> NotAUuid]
  ELSE IF q.req = "POST"
  THEN [status |-> Created,
        svc |-> [s EXCEPT !.entries = @ \cup {s.issued + 1}, !.issued = @ + 1],
        id |-> s.issued + 1]
  ELSE IF q.req \in {"POSTBAD", "READBAD"}
  THEN [status |-> BadRequest, svc |-> s, id |-> NotAUuid]
  ELSE IF q.req \in {"LIST", "READ"} THEN [status |-> Ok, svc |-> s, id |-> NotAUuid]
  ELSE IF id = NotAUuid THEN [status |-> s.malformed, svc |-> s, id |-> id]
  ELSE IF id \notin s.entries THEN [status |-> NotFound, svc |-> s, id |-> id]
  ELSE IF q.req = "PUTBAD" THEN [status |-> BadRequest, svc |-> s, id |-> id]
  ELSE IF q.req = "DELETE"
  THEN [status |-> NoContent, svc |-> [s EXCEPT !.entries = @ \ {id}], id |-> id]
  ELSE [status |-> Ok, svc |-> s, id |-> id]

\* part_003 lines 30-143: the health check and the CRUD tests
Part003Crud ==
  <<Request(1, "READ", "none", "none", Ok, "any"),
    Request(2, "LIST", "none", "none", Ok, "none"),
    Request(3, "POSTBAD", "none", "none", BadRequest, "any"),
    Request(3, "POSTBAD", "none", "none", BadRequest, "any"),
    Request(4, "POST", "none", "entry", Created, "any"),
    Request(5, "LIST", "none", "none", Ok, "one"),
    Request(6, "GET", "entry", "none", Unasserted, "any"),
    Request(6, "READ", "none", "none", Ok, "any"),
    Request(6, "READ", "none", "none", Unasserted, "any"),
    Request(7, "READ", "none", "none", Ok, "some"),
    Request(7, "READ", "none", "none", Unasserted, "any"),
    Request(8, "GET", "malformed", "none", NotFound, "any"),
    Request(8, "GET", "unknown", "none", NotFound, "any"),
    Request(9, "GET", "entry", "none", Ok, "any"),
    Request(10, "PUTBAD", "entry", "none", BadRequest, "any"),
    Request(10, "PUT", "malformed", "none", NotFound, "any"),
    Request(10, "PUT", "unknown", "none", NotFound, "any"),
    Request(10, "PUT", "entry", "none", Ok, "any"),
    Request(10, "GET", "entry", "none", Ok, "any"),
    Request(11, "DELETE", "malformed", "none", NotFound, "any"),
    Request(11, "DELETE", "unknown", "none", NotFound, "any"),
    Request(11, "DELETE", "entry", "none", NoContent, "any"),
    Request(11, "GET", "entry", "none", NotFound, "any")>>

\* part_003 lines 145-184 without afterAll: beforeAll and the summary tests
Part003Summary ==
  <<Request(12, "POST", "none", "ids", Unasserted, "any"),
    Request(12, "POST", "none", "ids", Unasserted, "any"),
    Request(12, "POST", "none", "ids", Unasserted, "any"),
    Request(12, "POST", "none", "ids", Unasserted, "any"),
    Request(13, "READ", "none", "none", Ok, "any"),
    Request(14, "READ", "none", "none", Ok, "any"),
    Request(15, "READBAD", "none", "none", BadRequest, "any")>>

\* part_003 lines 154-156: afterAll deletes the entries of beforeAll
Part003AfterAll == <<Request(16, "DELETEALL", "none", "none", Unasserted, "any")>>

\* Mutant of Part003: the suite without its afterAll.
Part003NoAfterAll == Part003Crud \o Part003Summary

Part003 == Part003Crud \o Part003Summary \o Part003AfterAll

\* api.test.js lines 140-298 (Task 3: CRUD Operations) and lines 628-653
\* (the CRUD lifecycle test)
ApiTest ==
  <<Request(1, "POST", "none", "entry", Unasserted, "any"),
    Request(2, "LIST", "none", "none", Ok, "some"),
    Request(3, "LIST", "none", "none", Ok, "some"),
    Request(4, "GET", "entry", "none", Ok, "any"),
    Request(5, "GET", "unknown", "none", NotFound, "any"),
    Request(6, "GET", "malformed", "none", BadRequest, "any"),
    Request(7, "PUTBAD", "entry", "none", BadRequest, "any"),
    Request(8, "PUT", "unknown", "none", NotFound, "any"),
    Request(9, "PUT", "malformed", "none", BadRequest, "any"),
    Request(10, "PUT", "entry", "none", Ok, "any"),
    Request(10, "GET", "entry", "none", Ok, "any"),
    Request(11, "DELETE", "malformed", "none", BadRequest, "any"),
    Request(12, "DELETE", "unknown", "none", NotFound, "any"),
    Request(13, "POST", "none", "entry", Unasserted, "any"),
    Request(13, "DELETE", "entry", "none", NoContent, "any"),
    Request(13, "GET", "entry", "none", NotFound, "any"),
    Request(14, "POST", "none", "entry", Created, "any"),
    Request(14, "GET", "entry", "none", Ok, "any"),
    Request(14, "PUT", "entry", "none", Ok, "any"),
    Request(14, "GET", "entry", "none", Ok, "any"),
    Request(14, "DELETE", "entry", "none", NoContent, "any"),
    Request(14, "GET", "entry", "none", NotFound, "any")>>

\* part_004 lines 144-306 and 638-663: the same tests as api.test.js, with
\* the message given to the matcher
Part004 == ApiTest

TestFiles == {"api.test.js", "part_003", "part_004"}

Script(file) ==
  IF file = "part_003" THEN Part003
  ELSE IF file = "part_004" THEN Part004
  ELSE IF file = "api.test.js" THEN ApiTest
  ELSE <<>>

MaxSuiteRuns == 2

\* No test file is running.
NoSuite ==
  [file |-> "none", pc |-> 1, runs |-> 0, entryId |-> NotAUuid, ids |-> {},
   failed |-> FALSE, refused |-> FALSE, empty |-> FALSE, after |-> "none",
   gone |-> {}, last |-> [request |-> NoRequest, id |-> NotAUuid, status |-> 0]]

\* The reporter on its own: no service is called.
NoTests == svc = Service(BadRequest) /\ suite = NoSuite

-----------------------------------------------------------------------------
(* The state machine. *)

NoRun == [js |-> "none"]      \* no RunResult handed in yet
NoDoc == [tag |-> "none"]     \* no tree built
NoFile == [tag |-> "nofile"]  \* the file does not exist
NoCall == [results |-> NoRun]

\* A file of the working directory that is not the reporter's.
OtherPath == <<"k">>
OtherFile == [tag |-> "other"]

\* What path p holds.
FileAt(f, p) == IF p \in DOMAIN f.files THEN f.files[p] ELSE NoFile

\* The filesystem before the first run: any of the directories down to dir
\* may be there already, and no report.
InitFs(dir) ==
  {[dirs |-> ds, files |-> [q \in {OtherPath} |-> OtherFile]] :
     ds \in {{}} \cup {Ancestors(q) : q \in Ancestors(dir)}}

\* Two runs, each of a process of its own, that share the filesystem.
Procs == {1, 2}

\* A run that has not begun: no document, no directory check, no write.
NotRun ==
  [doc |-> NoDoc, exists |-> FALSE, made |-> FALSE, thrown |-> "none", wrote |-> 0]

\* new CustomJunitReporter(globalConfig, o), before any run
Construct(o, f) ==
  /\ options = o
  /\ outputDir = OutputDir(o)
  /\ outputFile = OutputFile(o)
  /\ given = NoRun
  /\ results = NoRun
  /\ now = 0
  /\ host = <<>>
  /\ doc = NoDoc
  /\ thrown = "none"
  /\ called = FALSE
  /\ ops = <<>>
  /\ prev = NoCall
  /\ fs = f
  /\ pc = [p \in Procs |-> "format"]
  /\ run = [p \in Procs |-> NotRun]

\* A checkout without an output directory.
FreshFs == [dirs |-> {}, files |-> [q \in {OtherPath} |-> OtherFile]]

\* The reporter as jest.config.js configures it, in a fresh checkout.
Init == Construct(JestConfig, FreshFs) /\ NoTests

\* The last call, as the next one remembers it.
LastCall ==
  IF called
  THEN [results |-> results, now |-> now, host |-> host, doc |-> doc,
        thrown |-> thrown, ops |-> ops]
  ELSE NoCall

\* Mutant of Raised: the error of a filesystem call is caught and dropped.
RaisedNever(error) == "none"

\* Lines 58-61 are in no try block: the error of a filesystem call leaves
\* onRunComplete as it is.
Raised(error) == error

\* What the loops of lines 27-55 leave of the objects they walk: the code
\* assigns to no property of the RunResult, of a suite or of a case, and
\* join, split, toFixed, toISOString and path.basename change no argument.
AfterCase(a) == a

\* Mutant of AfterSuite: a missing perfStats is filled in on the suite.
AfterSuitePerfDefaulted(s) ==
  [s EXCEPT !.perfStats = IF @ \in {Undefined, Null} THEN DefaultPerf ELSE @,
            !.testResults = [j \in 1..Len(s.testResults) |->
                               AfterCase(s.testResults[j])]]

AfterSuite(s) ==
  [s EXCEPT !.testResults = [j \in 1..Len(s.testResults) |->
                               AfterCase(s.testResults[j])]]

AfterRun(r) ==
  [r EXCEPT !.testResults = [i \in 1..Len(r.testResults) |->
                               AfterSuite(r.testResults[i])]]

\* Mutant of OnRunComplete: the output directory is ensured before the tree
\* is built.
OnRunCompleteDirFirst(r, t, h, fault) ==
  /\ given' = r
  /\ results' = AfterRun(r)
  /\ now' = t
  /\ host' = h
  /\ called' = TRUE
  /\ prev' = LastCall
  /\ UNCHANGED <<options, outputDir, outputFile, pc, run, svc, suite>>
  /\ IF FormatError(r) # "none"
     THEN /\ thrown' = FormatError(r)
          /\ doc' = NoDoc
          /\ ops' = <<Op("mkdirSync", outputDir, "none")>>
          /\ fs' = [fs EXCEPT !.dirs = @ \cup Ancestors(outputDir)]
     ELSE /\ doc' = Root(r, t, h)
          /\ \E w \in Writer(fs, outputDir, outputFile, End(Root(r, t, h)), fault) :
               /\ fs' = w.fs
               /\ ops' = w.ops
               /\ thrown' = Raised(w.error)

\* onRunComplete(contexts, r), with Date.now() = t, os.hostname() = h and the
\* filesystem behaving as fault says: an error thrown while the tree is built
\* leaves before line 57, so before the filesystem is touched; otherwise
\* the writing step of lines 58-61 runs.
OnRunComplete(r, t, h, fault) ==
  /\ given' = r
  /\ results' = AfterRun(r)
  /\ now' = t
  /\ host' = h
  /\ called' = TRUE
  /\ prev' = LastCall
  /\ UNCHANGED <<options, outputDir, outputFile, pc, run, svc, suite>>
  /\ IF FormatError(r) # "none"
     THEN /\ thrown' = FormatError(r)
          /\ doc' = NoDoc
          /\ ops' = <<>>
          /\ UNCHANGED fs
     ELSE /\ doc' = Root(r, t, h)
          /\ \E w \in Writer(fs, outputDir, outputFile, End(Root(r, t, h)), fault) :
               /\ fs' = w.fs
               /\ ops' = w.ops
               /\ thrown' = Raised(w.error)

\* (a) one suite holding one case, the case over all its field values
CaseRun ==
  /\ ~called
  /\ \E at \in SeqUpTo(TitleStrs, MaxTitles), st \in Statuses, d \in Durations,
        fm \in SeqUpTo(MsgStrs, MaxMsgs), loc \in Locations :
       OnRunComplete(
         RunOf(<<SuiteOf(<<[ancestorTitles |-> at, title |-> <<"t">>, status |-> st,
                            duration |-> d, failureMessages |-> fm,
                            location |-> loc]>>)>>,
               1, IF st = "failed" THEN 1 ELSE 0),
         2500, DefaultHost, "none")

\* (b) one suite without cases, the suite's own fields, the clock and the
\*     host name over all their values
SuiteRun ==
  /\ ~called
  /\ \E ps \in PerfStats, nf \in 0..MaxCount, np \in 0..MaxCount,
        nk \in 0..MaxCount, t \in Clock, h \in Hosts :
       OnRunComplete(
         RunOf(<<[name |-> <<"f">>, perfStats |-> ps, numFailingTests |-> nf,
                  numPassingTests |-> np, numPendingTests |-> nk,
                  testResults |-> <<>>]>>, 0, 0),
         t, h, "none")

\* (c) up to MaxSuites suites of up to MaxCases plain cases, the run's totals
\*     over all their values
ShapeRun ==
  /\ ~called
  /\ \E ss \in SeqUpTo({SuiteOf(cs) : cs \in SeqUpTo(PlainCases, MaxCases)}, MaxSuites),
        total \in 0..MaxCount, failed \in 0..MaxCount :
       OnRunComplete(RunOf(ss, total, failed), 2500, DefaultHost, "none")

\* onRunComplete runs once, after the run has completed.
Next == CaseRun \/ SuiteRun \/ ShapeRun

Spec == Init /\ [][Next]_vars

-----------------------------------------------------------------------------
(* A reporter constructed with any options, whose onRunComplete runs any   *)
(* number of times (one run after the other, as in watch mode or in        *)
(* successive processes sharing the directory), on a filesystem that may   *)
(* fail.                                                                   *)

PlainRuns ==
  {RunOf(<<>>, 0, 0),
   RunOf(<<SuiteOf(<<PassedCase>>)>>, 1, 0),
   RunOf(<<SuiteOf(<<FailedCase>>), SuiteOf(<<PassedCase>>)>>, 2, 1),
   RunOf(<<SuiteOf(<<UnlocatedCase>>)>>, 1, 0)}

InitRuns ==
  \E o \in OptionSets : \E f \in InitFs(OutputDir(o)) : Construct(o, f) /\ NoTests

\* Jest calls the reporter once per run; the same instance is called again in
\* watch mode.  The claims compare a run with the one before it, so the
\* instance is followed through two runs.
PlainRun ==
  /\ prev = NoCall
  /\ \E r \in PlainRuns, t \in Clock, h \in Hosts, fault \in Faults :
       OnRunComplete(r, t, h, fault)

NextRuns == PlainRun

SpecRuns == InitRuns /\ [][NextRuns]_vars

-----------------------------------------------------------------------------
(* Two runs of reporters with the same options, each in a process of its   *)
(* own, on one filesystem.  onRunComplete is synchronous, so the runs      *)
(* interleave between its filesystem calls: each of existsSync, mkdirSync  *)
(* and writeFileSync is one step.                                          *)

\* The variables the concurrent runs leave alone.
reporterVars ==
  <<given, results, now, host, doc, thrown, called, ops, prev, options,
    outputDir, outputFile, svc, suite>>

\* lines 15-57: the run of process p builds its document, or throws
Format(p) ==
  /\ pc[p] = "format"
  /\ \E r \in PlainRuns, t \in Clock :
       IF FormatError(r) # "none"
       THEN /\ run' = [run EXCEPT ![p].thrown = FormatError(r)]
            /\ pc' = [pc EXCEPT ![p] = "done"]
       ELSE /\ run' = [run EXCEPT ![p].doc = Root(r, t, DefaultHost)]
            /\ pc' = [pc EXCEPT ![p] = "exists"]
  /\ UNCHANGED fs
  /\ UNCHANGED reporterVars

\* line 58: fs.existsSync(this._outputDir)
Exists(p) ==
  /\ pc[p] = "exists"
  /\ run' = [run EXCEPT ![p].exists = ExistsSync(fs, outputDir)]
  /\ pc' = [pc EXCEPT ![p] = IF ExistsSync(fs, outputDir) THEN "write" ELSE "mkdir"]
  /\ UNCHANGED fs
  /\ UNCHANGED reporterVars

\* line 59: fs.mkdirSync(this._outputDir, { recursive: true })
Mkdir(p) ==
  /\ pc[p] = "mkdir"
  /\ \E m \in MkdirSync(fs, outputDir, MkdirOptions, "none") :
       /\ fs' = m.fs
       /\ run' = [run EXCEPT ![p].made = TRUE, ![p].thrown = Raised(m.error)]
       /\ pc' = [pc EXCEPT ![p] = IF m.error = "none" THEN "write" ELSE "done"]
  /\ UNCHANGED reporterVars

\* The place of the latest write among the writes of the two runs.
LastWrite(rn) == CHOOSE n \in {rn[q].wrote : q \in Procs} :
                   \A q \in Procs : rn[q].wrote <= n

\* line 61: fs.writeFileSync(path.join(...), xml, 'utf-8')
Write(p) ==
  /\ pc[p] = "write"
  /\ \E w \in WriteFileSync(fs, PathJoin(outputDir, outputFile), End(run[p].doc),
                            "none") :
       /\ fs' = w.fs
       /\ run' = [run EXCEPT ![p].wrote = LastWrite(run) + 1,
                             ![p].thrown = Raised(w.error)]
       /\ pc' = [pc EXCEPT ![p] = "done"]
  /\ UNCHANGED reporterVars

NextRace == \E p \in Procs : Format(p) \/ Exists(p) \/ Mkdir(p) \/ Write(p)

SpecRace == InitRuns /\ [][NextRace]_vars

-----------------------------------------------------------------------------
(* The test files run against the service, one after the other; any request *)
(* may be refused by the service.                                           *)

\* The variables the test suites leave alone.
reportVars ==
  <<given, results, now, host, doc, thrown, called, fs, ops, prev, options,
    outputDir, outputFile, pc, run>>

\* The suite has run all the requests of its file.
Finished(su) == su.pc > Len(Script(su.file))

\* jest starts a test file: before the first run, or after a run has ended.
\* The suite remembers whether the service was empty, and which file ran
\* before without a failed assertion or a refused request.
StartRun(file) ==
  /\ Finished(suite)
  /\ suite.runs < MaxSuiteRuns
  /\ suite' = [NoSuite EXCEPT
                 !.file = file,
                 !.runs = suite.runs + 1,
                 !.empty = (svc.entries = {}),
                 !.after = IF suite.empty /\ ~suite.failed /\ ~suite.refused
                           THEN suite.file ELSE "none"]
  /\ UNCHANGED svc
  /\ UNCHANGED reportVars

\* The id a request names.
IdOf(q, su) ==
  IF q.id = "entry" THEN su.entryId
  ELSE IF q.id = "unknown" THEN ZeroUuid
  ELSE NotAUuid

\* The assertions on the answer to q hold.
Passes(q, status, listed) ==
  /\ q.expect # Unasserted => status = q.expect
  /\ q.count = "none" => listed = 0
  /\ q.count = "one" => listed = 1
  /\ q.count = "some" => listed >= 1

\* Where the suite goes on after request k: the next request, or after a
\* failed assertion the first request of the next test.
GoOn(script, k, passed) ==
  IF passed THEN k + 1
  ELSE IF \E n \in (k + 1)..Len(script) : script[n].test # script[k].test
  THEN CHOOSE n \in (k + 1)..Len(script) :
         /\ script[n].test # script[k].test
         /\ \A i \in (k + 1)..(n - 1) : script[i].test = script[k].test
  ELSE Len(script) + 1

\* The suite sends its next request and checks the answer.
Send ==
  /\ ~Finished(suite)
  /\ LET q == Script(suite.file)[suite.pc]
         id == IdOf(q, suite)
     IN /\ q.req # "DELETEALL"
        /\ \E refused \in BOOLEAN :
             LET a == Respond(svc, q, id, refused)
                 passed == Passes(q, a.status, Cardinality(svc.entries))
             IN /\ svc' = a.svc
                /\ suite' =
                     [suite EXCEPT
                        !.pc = GoOn(Script(suite.file), suite.pc, passed),
                        !.failed = @ \/ ~passed,
                        !.refused = @ \/ refused,
                        !.entryId = IF q.into = "entry" THEN a.id ELSE @,
                        !.ids = IF q.into = "ids" THEN @ \cup {a.id} ELSE @,
                        !.gone = IF q.req = "DELETE" /\ a.status = NoContent
                                 THEN @ \cup {id} ELSE @,
                        !.last = [request |-> q, id |-> id, status |-> a.status]]
  /\ UNCHANGED reportVars

\* afterAll: Promise.all(ids.map(deleteEntry)), the deletes in any order and
\* their answers not looked at.
AfterAll ==
  /\ ~Finished(suite)
  /\ LET q == Script(suite.file)[suite.pc]
     IN /\ q.req = "DELETEALL"
        /\ IF suite.ids = {}
           THEN /\ suite' = [suite EXCEPT !.pc = @ + 1]
                /\ UNCHANGED svc
           ELSE \E id \in suite.ids, refused \in BOOLEAN :
                  LET a == Respond(svc, [q EXCEPT !.req = "DELETE"], id, refused)
                  IN /\ svc' = a.svc
                     /\ suite' = [suite EXCEPT
                                    !.ids = @ \ {id},
                                    !.refused = @ \/ refused,
                                    !.gone = IF a.status = NoContent
                                             THEN @ \cup {id} ELSE @]
  /\ UNCHANGED reportVars

InitSuite ==
  /\ Construct(JestConfig, FreshFs)
  /\ suite = NoSuite
  /\ \E m \in MalformedAnswers : svc = Service(m)

NextSuite == (\E file \in TestFiles : StartRun(file)) \/ Send \/ AfterAll

SpecSuite == InitSuite /\ [][NextSuite]_vars

-----------------------------------------------------------------------------
(* Reading the document back: what a consumer of the report sees. *)

\* onRunComplete returned and a document was built.
Built == called /\ thrown = "none" /\ doc # NoDoc

DigitVal(c) == CHOOSE d \in 0..9 : Digit(d) = c

\* The number a string of decimal digits denotes.
RECURSIVE StrNum(_)
StrNum(s) ==
  IF Len(s) = 0 THEN 0
  ELSE 10 * StrNum(SubSeq(s, 1, Len(s) - 1)) + DigitVal(s[Len(s)])

\* s is the canonical decimal numeral of n.
IsNumeral(s, n) ==
  /\ Len(s) >= 1
  /\ \A k \in 1..Len(s) : \E d \in 0..9 : s[k] = Digit(d)
  /\ Len(s) > 1 => s[1] # "0"
  /\ StrNum(s) = n

RECURSIVE SumSeq(_)
SumSeq(ns) == IF Len(ns) = 0 THEN 0 ELSE Head(ns) + SumSeq(Tail(ns))

\* The testcase elements of the document and those holding a failure child.
NumTestCases(d) ==
  SumSeq([i \in 1..Len(d.children) |-> Len(d.children[i].children)])

NumFailedTestCases(d) ==
  SumSeq([i \in 1..Len(d.children) |->
            Cardinality({j \in 1..Len(d.children[i].children) :
                           \E k \in 1..Len(d.children[i].children[j].children) :
                             d.children[i].children[j].children[k].tag = "failure"})])

\* The CaseResults of the input and those with status failed.
NumCases(r) ==
  SumSeq([i \in 1..Len(r.testResults) |-> Len(r.testResults[i].testResults)])

NumFailedCases(r) ==
  SumSeq([i \in 1..Len(r.testResults) |->
            Cardinality({j \in 1..Len(r.testResults[i].testResults) :
                           r.testResults[i].testResults[j].status = "failed"})])

-----------------------------------------------------------------------------
(* C1: in every document onRunComplete builds, the root testsuites element *)
(* has tests = numTotalTests and failures = numFailedTests of the input,   *)
(* and errors = 0.                                                         *)
C1_RootTotals ==
  Built => /\ IsNumeral(doc.tests, results.numTotalTests)
           /\ IsNumeral(doc.failures, results.numFailedTests)
           /\ doc.errors = <<"0">>

\* A run whose totals differ from each other and from what its suites hold.
C1_Witness ==
  /\ Built
  /\ results.numTotalTests = 2
  /\ results.numFailedTests = 1
  /\ Len(results.testResults) = 1
  /\ doc.tests = <<"2">>
  /\ doc.failures = <<"1">>

(* C2: for every suite i of the input, the i-th testsuite element's tests  *)
(* attribute is numPassingTests + numFailingTests + numPendingTests of     *)
(* that suite.                                                             *)
C2_SuiteTests ==
  Built =>
    /\ Len(doc.children) = Len(results.testResults)
    /\ \A i \in 1..Len(results.testResults) :
         IsNumeral(doc.children[i].tests,
                   results.testResults[i].numPassingTests
                     + results.testResults[i].numFailingTests
                     + results.testResults[i].numPendingTests)

\* A suite with passing, failing and pending tests, each count different
\* from 0.
C2_Witness ==
  /\ Built
  /\ Len(results.testResults) = 1
  /\ results.testResults[1].numPassingTests = 2
  /\ results.testResults[1].numFailingTests = 1
  /\ results.testResults[1].numPendingTests = 2
  /\ doc.children[1].tests = <<"5">>

-----------------------------------------------------------------------------
(* The cases of a RunResult by position <<suite, case>>, and the testcase  *)
(* element of the document at the same position.                           *)

CasePos(r) ==
  UNION {{<<i, j>> : j \in 1..Len(r.testResults[i].testResults)} :
           i \in 1..Len(r.testResults)}

CaseAt(r, p) == r.testResults[p[1]].testResults[p[2]]

ElemAt(d, p) == d.children[p[1]].children[p[2]]

\* Every suite of the run carries its perfStats object.
HasPerfStats(r) ==
  \A i \in 1..Len(r.testResults) : r.testResults[i].perfStats \notin {Undefined, Null}

\* The case has no ancestor titles and no location (missing or null).
Unlocated(a) == a.ancestorTitles = <<>> /\ a.location \in {Undefined, Null}

(* C4 as stated: onRunComplete does not throw for a RunResult whose        *)
(* optional fields are missing, and a case with empty ancestorTitles and   *)
(* no location (missing or null) gets classname = "".                      *)
C4_NeverThrows ==
  (called /\ HasPerfStats(results)) =>
    /\ thrown = "none"
    /\ doc # NoDoc
    /\ \A p \in CasePos(results) :
         Unlocated(CaseAt(results, p)) => ElemAt(doc, p).classname = <<>>

(* C5 as stated: a suite whose perfStats is missing is defaulted:          *)
(* onRunComplete returns, and the report is built and written.             *)
C5_PerfStatsDefaulted ==
  (/\ called
   /\ \E i \in 1..Len(results.testResults) :
        results.testResults[i].perfStats = Undefined
   /\ \A p \in CasePos(results) : ~Unlocated(CaseAt(results, p)))
    => /\ thrown = "none"
       /\ doc # NoDoc
       /\ FileAt(fs, PathJoin(outputDir, outputFile)) = End(doc)

-----------------------------------------------------------------------------
\* body is the strings of msgs in order with one newline between neighbours.
RECURSIVE IsNewlineJoined(_, _)
IsNewlineJoined(body, msgs) ==
  IF Len(msgs) = 0 THEN body = <<>>
  ELSE IF Len(msgs) = 1 THEN body = msgs[1]
  ELSE LET n == Len(msgs[1])
       IN /\ Len(body) > n
          /\ SubSeq(body, 1, n) = msgs[1]
          /\ body[n + 1] = NL
          /\ IsNewlineJoined(SubSeq(body, n + 2, Len(body)), Tail(msgs))

\* m is body up to, and without, its first newline.
IsTextBeforeNewline(m, body) ==
  /\ Len(m) <= Len(body)
  /\ SubSeq(body, 1, Len(m)) = m
  /\ \A k \in 1..Len(m) : m[k] # NL
  /\ Len(m) < Len(body) => body[Len(m) + 1] = NL

(* C6: for every case with status failed, the failure element's message    *)
(* is the newline-joined failureMessages up to and without the first       *)
(* newline, and its body is the whole newline-joined failureMessages.      *)
C6_FailureMessage ==
  Built =>
    \A p \in CasePos(results) :
      CaseAt(results, p).status = "failed" =>
        /\ Len(ElemAt(doc, p).children) >= 1
        /\ LET f == ElemAt(doc, p).children[1]
           IN /\ f.tag = "failure"
              /\ IsNewlineJoined(f.text, CaseAt(results, p).failureMessages)
              /\ IsTextBeforeNewline(f.message, f.text)

\* The shape of the spec's example: two messages, the first of two lines.
C6_Witness ==
  /\ Built
  /\ \E p \in CasePos(results) :
       /\ CaseAt(results, p).status = "failed"
       /\ CaseAt(results, p).failureMessages = <<<<"e", NL, "s">>, <<"e">>>>
       /\ ElemAt(doc, p).children[1].message = <<"e">>
       /\ ElemAt(doc, p).children[1].text = <<"e", NL, "s", NL, "e">>

(* C7: a testcase element has exactly one child, a failure element, when   *)
(* its case has status failed, and no child otherwise, whatever the case's *)
(* failureMessages.                                                        *)
C7_FailureChild ==
  Built =>
    \A p \in CasePos(results) :
      IF CaseAt(results, p).status = "failed"
      THEN /\ Len(ElemAt(doc, p).children) = 1
           /\ ElemAt(doc, p).children[1].tag = "failure"
      ELSE ElemAt(doc, p).children = <<>>

\* A pending case that carries failure messages and gets no child.
C7_Witness ==
  /\ Built
  /\ \E p \in CasePos(results) :
       /\ CaseAt(results, p).status = "pending"
       /\ Len(CaseAt(results, p).failureMessages) > 0
       /\ ElemAt(doc, p).children = <<>>

-----------------------------------------------------------------------------
\* s is ms milliseconds written in seconds with exactly three decimals.
IsSeconds3(s, ms) ==
  /\ Len(s) >= 5
  /\ s[Len(s) - 3] = "."
  /\ IsNumeral(SubSeq(s, 1, Len(s) - 4), ms \div 1000)
  /\ \A k \in (Len(s) - 2)..Len(s) : \E d \in 0..9 : s[k] = Digit(d)
  /\ StrNum(SubSeq(s, Len(s) - 2, Len(s))) = ms % 1000

(* C8: a case whose duration is missing or null gets time = "0.000"; a     *)
(* case with a duration of d milliseconds gets d/1000 written with exactly *)
(* three decimals.                                                         *)
C8_CaseTime ==
  Built =>
    \A p \in CasePos(results) :
      IF CaseAt(results, p).duration \in {Undefined, Null}
      THEN ElemAt(doc, p).time = <<"0", ".", "0", "0", "0">>
      ELSE IsSeconds3(ElemAt(doc, p).time, CaseAt(results, p).duration.num)

\* A duration of 1500 ms is written 1.500.
C8_Witness ==
  /\ Built
  /\ \E p \in CasePos(results) :
       /\ CaseAt(results, p).duration = Num(1500)
       /\ ElemAt(doc, p).time = <<"1", ".", "5", "0", "0">>

-----------------------------------------------------------------------------
(* C9 as stated: for every case with at least one ancestor title, the      *)
(* classname is the titles joined in order with " > " (U+203A), whatever   *)
(* the titles are, empty titles included.                                  *)
C9_JoinedTitles ==
  Built =>
    \A p \in CasePos(results) :
      Len(CaseAt(results, p).ancestorTitles) >= 1 =>
        ElemAt(doc, p).classname = Join(CaseAt(results, p).ancestorTitles, Sep)

\* q is path without its trailing slashes.
IsStripped(q, path) ==
  /\ Len(q) <= Len(path)
  /\ q = SubSeq(path, 1, Len(q))
  /\ Len(q) > 0 => q[Len(q)] # "/"
  /\ \A k \in (Len(q) + 1)..Len(path) : path[k] = "/"

\* c is the last segment of path: what follows the last slash, trailing
\* slashes aside.
IsLastSegment(c, path) ==
  \E n \in 0..Len(path) :
    LET q == SubSeq(path, 1, n)
    IN /\ IsStripped(q, path)
       /\ Len(c) <= n
       /\ c = SubSeq(q, n - Len(c) + 1, n)
       /\ \A k \in 1..Len(c) : c[k] # "/"
       /\ Len(c) < n => q[n - Len(c)] = "/"

(* C10: for every case with empty ancestorTitles, the classname is the     *)
(* last path segment of location.file when location.file is present, and   *)
(* the empty string when location exists without a file.                   *)
C10_FileBaseName ==
  Built =>
    \A p \in CasePos(results) :
      LET a == CaseAt(results, p)
      IN (a.ancestorTitles = <<>> /\ a.location \notin {Undefined, Null}) =>
           IF a.location.file = Undefined
           THEN ElemAt(doc, p).classname = <<>>
           ELSE IsLastSegment(ElemAt(doc, p).classname, a.location.file.str)

\* A case without ancestors whose file has directories before its name.
C10_Witness ==
  /\ Built
  /\ \E p \in CasePos(results) :
       /\ CaseAt(results, p).ancestorTitles = <<>>
       /\ CaseAt(results, p).location = [file |-> Str(<<"/", "x", "/", "s">>)]
       /\ ElemAt(doc, p).classname = <<"s">>

-----------------------------------------------------------------------------
(* C11: the document keeps the input order: the k-th testsuite element is  *)
(* that of the k-th suite and, inside it, the j-th testcase element is     *)
(* that of the suite's j-th case; nothing is dropped or duplicated.        *)
C11_InputOrder ==
  Built =>
    /\ Len(doc.children) = Len(results.testResults)
    /\ \A i \in 1..Len(results.testResults) :
         /\ doc.children[i].tag = "testsuite"
         /\ doc.children[i].name = results.testResults[i].name
         /\ Len(doc.children[i].children) = Len(results.testResults[i].testResults)
    /\ \A p \in CasePos(results) :
         /\ ElemAt(doc, p).tag = "testcase"
         /\ ElemAt(doc, p).name = CaseAt(results, p).title
         /\ (ElemAt(doc, p).children # <<>>) = (CaseAt(results, p).status = "failed")

\* Two suites: the first holds the cases u, t in this order, the second t.
C11_Witness ==
  /\ Built
  /\ Len(results.testResults) = 2
  /\ Len(results.testResults[1].testResults) = 2
  /\ Len(results.testResults[2].testResults) = 1
  /\ CaseAt(results, <<1, 1>>).title = <<"u">>
  /\ CaseAt(results, <<1, 2>>).title = <<"t">>
  /\ CaseAt(results, <<2, 1>>).title = <<"t">>
  /\ ElemAt(doc, <<1, 1>>).name = <<"u">>
  /\ ElemAt(doc, <<1, 2>>).name = <<"t">>
  /\ ElemAt(doc, <<2, 1>>).name = <<"t">>

-----------------------------------------------------------------------------
\* Two runs of one reporter instance on the same RunResult, both of which
\* built a document.
SameInputTwice ==
  /\ called
  /\ prev # NoCall
  /\ prev.results = results
  /\ prev.doc # NoDoc
  /\ doc # NoDoc

\* The document without its time and timestamp attributes.
NoTimes(e) == [e EXCEPT !.time = <<>>]
NoStamps(e) == [NoTimes(e) EXCEPT !.timestamp = <<>>]
SuiteNoTimes(e) ==
  [NoStamps(e) EXCEPT
     !.children = [j \in 1..Len(e.children) |-> NoTimes(e.children[j])]]
DocNoTimes(d) ==
  [NoStamps(d) EXCEPT
     !.children = [i \in 1..Len(d.children) |-> SuiteNoTimes(d.children[i])]]
DocNoTimesNoHost(d) == [DocNoTimes(d) EXCEPT !.hostname = <<>>]

(* C12 as stated: two runs on the same RunResult with the same options     *)
(* produce documents identical in every element, attribute and text node   *)
(* other than the timestamp and time attributes.                           *)
C12_Original == SameInputTwice => DocNoTimes(prev.doc) = DocNoTimes(doc)

(* C12 amended: two runs on the same RunResult with the same options       *)
(* produce documents identical in everything other than the timestamp and  *)
(* time attributes and the root hostname attribute; the hostname is the    *)
(* name of the executing host, so it too is identical when both runs       *)
(* execute on a host of the same name.                                     *)
C12_Deterministic ==
  SameInputTwice =>
    /\ DocNoTimesNoHost(prev.doc) = DocNoTimesNoHost(doc)
    /\ doc.hostname = host
    /\ prev.doc.hostname = prev.host
    /\ prev.host = host => DocNoTimes(prev.doc) = DocNoTimes(doc)

\* The same two-suite RunResult formatted twice on one host at two moments.
C12_Witness ==
  /\ SameInputTwice
  /\ Len(results.testResults) = 2
  /\ prev.now # now
  /\ prev.host = host
  /\ prev.doc # doc
  /\ DocNoTimes(prev.doc) = DocNoTimes(doc)

\* The time and timestamp attributes of the root and of the suites.
SuiteTimes(d) ==
  [i \in 1..Len(d.children) |->
     [time |-> d.children[i].time, timestamp |-> d.children[i].timestamp]]
Times(d) ==
  [time |-> d.time, timestamp |-> d.timestamp, suites |-> SuiteTimes(d)]

(* C13 as stated: the timestamp and time values are derived only from      *)
(* instants supplied in the RunResult (startTime, perfStats), never by     *)
(* reading a clock: two runs on the same RunResult carry the same values.  *)
C13_Original == SameInputTwice => Times(prev.doc) = Times(doc)

(* C13 amended: every timestamp attribute and every suite's time attribute *)
(* is derived only from instants supplied in the RunResult; the root time  *)
(* attribute is the seconds elapsed from startTime to the clock reading    *)
(* taken when the document is built, so it is the same for two runs on the *)
(* same RunResult only when the clock reads the same.                      *)
C13_TimesFromInput ==
  SameInputTwice =>
    /\ doc.timestamp = prev.doc.timestamp
    /\ SuiteTimes(doc) = SuiteTimes(prev.doc)
    /\ IsSeconds3(doc.time, now - results.startTime)
    /\ IsSeconds3(prev.doc.time, prev.now - results.startTime)
    /\ prev.now = now => doc.time = prev.doc.time

\* The same RunResult with suites formatted at two clock readings: the root
\* time differs, the timestamps and suite times do not.
C13_Witness ==
  /\ SameInputTwice
  /\ Len(results.testResults) = 2
  /\ prev.now # now
  /\ doc.time # prev.doc.time
  /\ doc.timestamp = prev.doc.timestamp
  /\ SuiteTimes(doc) = SuiteTimes(prev.doc)

\* The path of the report, written out: directory, separator, file name.
ReportPath == outputDir \o <<"/">> \o outputFile

\* The calls of one kind among the filesystem calls of the last run.
OpsOf(os, name) == {k \in 1..Len(os) : os[k].op = name}

\* The last run built its document and returned.
Returned == called /\ doc # NoDoc /\ thrown = "none"

(* C14: a run that reaches the writing step with the output directory      *)
(* missing creates it, parents included, before the file is written; a run *)
(* that finds the directory there creates nothing and does not fail on it. *)
C14_DirectoryEnsured ==
  [][(called' /\ doc' # NoDoc) =>
       /\ thrown' \notin {"EEXIST", "ENOENT"}
       /\ thrown' = "none" =>
            /\ Ancestors(outputDir) \subseteq fs'.dirs
            /\ outputDir \notin fs.dirs =>
                 /\ Len(ops') = 3
                 /\ ops'[2] = Op("mkdirSync", outputDir, "none")
                 /\ ops'[3].op = "writeFileSync"
            /\ outputDir \in fs.dirs =>
                 /\ OpsOf(ops', "mkdirSync") = {}
                 /\ fs'.dirs = fs.dirs]_vars

\* A first run made the nested directory a/b and wrote; a second run found
\* it there and wrote again.
C14_Witness ==
  /\ Returned
  /\ prev # NoCall
  /\ prev.thrown = "none"
  /\ outputDir = <<"a","/","b">>
  /\ Len(prev.ops) = 3
  /\ prev.ops[2] = Op("mkdirSync", outputDir, "none")
  /\ OpsOf(ops, "mkdirSync") = {}
  /\ {<<"a">>, <<"a","/","b">>} \subseteq fs.dirs
  /\ FileAt(fs, ReportPath) = End(doc)

(* C15: an error of the filesystem calls ends the run and is the error the *)
(* caller receives, unchanged; a run that returns normally has written its *)
(* report.                                                                 *)
C15_ErrorsPropagate ==
  (called /\ doc # NoDoc) =>
    /\ Len(ops) >= 1
    /\ \A k \in 1..(Len(ops) - 1) : ops[k].error = "none"
    /\ thrown = ops[Len(ops)].error
    /\ thrown = "none" =>
         /\ ops[Len(ops)].op = "writeFileSync"
         /\ FileAt(fs, ReportPath) = End(doc)

\* A run whose mkdirSync was refused, then a run whose write filled the disk:
\* each error reached the caller.
C15_Witness ==
  /\ called
  /\ prev # NoCall
  /\ prev.doc # NoDoc
  /\ prev.ops[Len(prev.ops)] = Op("mkdirSync", outputDir, "EACCES")
  /\ prev.thrown = "EACCES"
  /\ doc # NoDoc
  /\ ops[Len(ops)] = Op("writeFileSync", ReportPath, "ENOSPC")
  /\ thrown = "ENOSPC"

(* C16: a run that returns normally has checked the output directory once, *)
(* created it at most once, and written the whole document once to         *)
(* outputDirectory/outputName; no other file is created or changed.        *)
C16_OneWrite ==
  [][(called' /\ doc' # NoDoc /\ thrown' = "none") =>
       /\ ops'[1] = Op("existsSync", outputDir, "none")
       /\ Cardinality(OpsOf(ops', "existsSync")) = 1
       /\ Cardinality(OpsOf(ops', "mkdirSync")) <= 1
       /\ \A k \in OpsOf(ops', "mkdirSync") : ops'[k].path = outputDir
       /\ Cardinality(OpsOf(ops', "writeFileSync")) = 1
       /\ ops'[Len(ops')] = Op("writeFileSync", ReportPath, "none")
       /\ FileAt(fs', ReportPath) = End(doc')
       /\ \A q \in (DOMAIN fs.files \cup DOMAIN fs'.files) \ {ReportPath} :
            FileAt(fs', q) = FileAt(fs, q)]_vars

\* A run that made the directory and wrote the report next to another file.
C16_Witness ==
  /\ Returned
  /\ Len(ops) = 3
  /\ ops[2].op = "mkdirSync"
  /\ ops[3] = Op("writeFileSync", ReportPath, "none")
  /\ DOMAIN fs.files = {OtherPath, ReportPath}
  /\ FileAt(fs, OtherPath) = OtherFile
  /\ FileAt(fs, ReportPath) = End(doc)

(* C17: when the writing step fails, the path outputDirectory/outputName   *)
(* holds a complete document or no file, never a partially written one.    *)
C17_NoPartialFile ==
  (called /\ doc # NoDoc /\ thrown # "none") =>
    \/ FileAt(fs, ReportPath) = NoFile
    \/ "root" \in DOMAIN FileAt(fs, ReportPath)

\* What the caller passed for an option (Undefined: nothing).
Given(field) ==
  IF options \in {Undefined, Null} THEN Undefined ELSE options[field]

(* C18 as stated: the report goes to test-reports/custom-results.xml by    *)
(* default, also when no options object is given, and every supplied       *)
(* option value is used as given.                                          *)
C18_Original ==
  Returned =>
    LET dir == IF Given("outputDirectory") = Undefined THEN TestReports
               ELSE Given("outputDirectory").str
        file == IF Given("outputName") = Undefined THEN CustomResultsXml
                ELSE Given("outputName").str
    IN /\ outputDir = dir
       /\ outputFile = file
       /\ FileAt(fs, dir \o <<"/">> \o file) = End(doc)

(* C18 amended: the report goes to test-reports/custom-results.xml by      *)
(* default, also when no options object is given; an option that is        *)
(* supplied as a non-empty string is used as given, and one supplied as    *)
(* the empty string is replaced by its default.                            *)
C18_Defaults ==
  Returned =>
    LET dir == IF Given("outputDirectory") \in {Undefined, Str(<<>>)}
               THEN TestReports ELSE Given("outputDirectory").str
        file == IF Given("outputName") \in {Undefined, Str(<<>>)}
                THEN CustomResultsXml ELSE Given("outputName").str
    IN /\ outputDir = dir
       /\ outputFile = file
       /\ FileAt(fs, dir \o <<"/">> \o file) = End(doc)

\* A reporter constructed without an options object wrote its report to
\* test-reports/custom-results.xml.
C18_Witness ==
  /\ Returned
  /\ options = Undefined
  /\ FileAt(fs, TestReports \o <<"/">> \o CustomResultsXml) = End(doc)

(* C19: for every suite, the testsuite element's failures attribute is the *)
(* suite's numFailingTests, its skipped attribute is numPendingTests and   *)
(* its errors attribute is 0.                                              *)
C19_SuiteCounts ==
  Built =>
    \A i \in 1..Len(results.testResults) :
      /\ IsNumeral(doc.children[i].failures, results.testResults[i].numFailingTests)
      /\ IsNumeral(doc.children[i].skipped, results.testResults[i].numPendingTests)
      /\ doc.children[i].errors = <<"0">>

\* The spec's example: 3 passing, 1 failing, 1 pending.
C19_Witness ==
  /\ Built
  /\ Len(results.testResults) = 1
  /\ results.testResults[1].numPassingTests = 3
  /\ results.testResults[1].numFailingTests = 1
  /\ results.testResults[1].numPendingTests = 1
  /\ doc.children[1].tests = <<"5">>
  /\ doc.children[1].failures = <<"1">>
  /\ doc.children[1].skipped = <<"1">>
  /\ doc.children[1].errors = <<"0">>

-----------------------------------------------------------------------------
-----------------------------------------------------------------------------
(* C21: after successive successful runs writing to the same path, the     *)
(* file holds exactly the document of the last run: nothing of the earlier *)
(* run is kept.                                                            *)
C21_LastRunWins ==
  (Returned /\ prev # NoCall /\ prev.doc # NoDoc /\ prev.thrown = "none") =>
    FileAt(fs, ReportPath) = End(doc)

\* Two successful runs on different RunResults: the file holds the second
\* document, which is not the first.
C21_Witness ==
  /\ Returned
  /\ prev # NoCall
  /\ prev.doc # NoDoc
  /\ prev.thrown = "none"
  /\ Len(prev.results.testResults) = 2
  /\ Len(results.testResults) = 1
  /\ FileAt(fs, ReportPath) = End(doc)
  /\ FileAt(fs, ReportPath) # End(prev.doc)

\* The failure elements of the document.
FailureElems(d) ==
  {d.children[i].children[j].children[k] :
     <<i, j, k>> \in
       {x \in (1..Len(d.children)) \X (1..MaxCases) \X (1..1) :
          /\ x[2] <= Len(d.children[x[1]].children)
          /\ x[3] <= Len(d.children[x[1]].children[x[2]].children)}}

(* C27: the message attribute of every failure element contains no newline *)
(* and is a prefix of the element's body text; a failed case whose         *)
(* failureMessages is empty still gets a failure element, with empty       *)
(* message and empty body.                                                 *)
C27_MessagePrefix ==
  Built =>
    /\ \A f \in FailureElems(doc) :
         /\ f.tag = "failure"
         /\ \A k \in 1..Len(f.message) : f.message[k] # NL
         /\ Len(f.message) <= Len(f.text)
         /\ SubSeq(f.text, 1, Len(f.message)) = f.message
    /\ \A p \in CasePos(results) :
         (CaseAt(results, p).status = "failed"
            /\ CaseAt(results, p).failureMessages = <<>>) =>
           ElemAt(doc, p).children =
             <<[tag |-> "failure", message |-> <<>>, text |-> <<>>]>>

\* A failed case without failure messages got the empty failure element.
C27_EmptyWitness ==
  /\ Built
  /\ \E p \in CasePos(results) :
       /\ CaseAt(results, p).status = "failed"
       /\ CaseAt(results, p).failureMessages = <<>>
       /\ ElemAt(doc, p).children =
            <<[tag |-> "failure", message |-> <<>>, text |-> <<>>]>>

\* The testcase children of suite element e that hold a failure child, and
\* the cases of suite s with status failed.
FailureHolders(e) ==
  {j \in 1..Len(e.children) :
     \E k \in 1..Len(e.children[j].children) :
       e.children[j].children[k].tag = "failure"}
FailedCases(s) ==
  {j \in 1..Len(s.testResults) : s.testResults[j].status = "failed"}

(* C28: a testsuite's failures attribute equals the number of its testcase *)
(* children holding a failure child exactly when the suite's               *)
(* numFailingTests equals the number of its cases with status failed: the  *)
(* children follow the statuses, the attribute follows the supplied count. *)
C28_Independent ==
  Built =>
    \A i \in 1..Len(results.testResults) :
      /\ Cardinality(FailureHolders(doc.children[i]))
           = Cardinality(FailedCases(results.testResults[i]))
      /\ IsNumeral(doc.children[i].failures, results.testResults[i].numFailingTests)
      /\ (StrNum(doc.children[i].failures)
            = Cardinality(FailureHolders(doc.children[i])))
           <=> (results.testResults[i].numFailingTests
                  = Cardinality(FailedCases(results.testResults[i])))

\* A suite reported with two failing tests and no cases: failures = 2 and no
\* failure child.
C28_Witness ==
  /\ Built
  /\ Len(results.testResults) = 1
  /\ results.testResults[1].numFailingTests = 2
  /\ results.testResults[1].testResults = <<>>
  /\ doc.children[1].failures = <<"2">>
  /\ FailureHolders(doc.children[1]) = {}

C25_InputUnchanged == called => results = given

\* A call that threw on a suite without perfStats left the suite as it was.
C25_Witness ==
  /\ called
  /\ thrown = "TypeError"
  /\ Len(given.testResults) = 1
  /\ given.testResults[1].perfStats = Undefined
  /\ results = given

(* C26: when formatting throws, the filesystem has not been touched: no    *)
(* filesystem call was made, no directory was created and no file was      *)
(* created or changed, so the report of an earlier run stays as it was.    *)
C26_FormatBeforeWrite ==
  [][(called' /\ doc' = NoDoc) =>
       /\ thrown' = "TypeError"
       /\ ops' = <<>>
       /\ fs' = fs]_vars

\* A run wrote its report and the next run threw while formatting: the file
\* still holds the first run's document.
C26_Witness ==
  /\ called
  /\ doc = NoDoc
  /\ thrown = "TypeError"
  /\ ops = <<>>
  /\ prev # NoCall
  /\ prev.doc # NoDoc
  /\ prev.thrown = "none"
  /\ FileAt(fs, ReportPath) = End(prev.doc)

-----------------------------------------------------------------------------
(* C22: once DELETE /api/entries/:id has answered 204 for an entry created *)
(* by POST, a following GET for the same id is asserted to answer 404 by   *)
(* every test file, and a service that answers the requests as asserted    *)
(* answers it 404.                                                         *)
C22_DeletedIsGone ==
  (suite.last.request.req = "GET" /\ suite.last.id \in suite.gone) =>
    /\ suite.last.id >= 1
    /\ suite.last.request.expect = NotFound
    /\ suite.last.status \in {NotFound, ServerError}
    /\ ~suite.refused => suite.last.status = NotFound

\* api.test.js deleted an entry it had created, then asked for it and got 404.
C22_Witness ==
  /\ suite.file = "api.test.js"
  /\ ~suite.failed
  /\ suite.last.request.req = "GET"
  /\ suite.last.id \in suite.gone
  /\ suite.last.id >= 1
  /\ suite.last.status = NotFound

(* C23: GET, PUT and DELETE on /api/entries/:id are asserted to answer 400 *)
(* for an id that is not a well-formed UUID and 404 for a well-formed UUID *)
(* that names no entry, by every test file alike.                          *)
C23_SameInEveryFile ==
  suite.last.request.req \in {"GET", "PUT", "DELETE"} =>
    /\ suite.last.request.id = "malformed" =>
         suite.last.request.expect = BadRequest
    /\ suite.last.request.id = "unknown" =>
         suite.last.request.expect = NotFound

(* C29: a run of part_003 that starts against a service without entries,   *)
(* and in which every request succeeds as asserted, leaves the service      *)
(* without entries; the opening check of a run of part_003 that follows     *)
(* such a run holds.                                                        *)
C29_SelfCleaning ==
  /\ (suite.file = "part_003" /\ Finished(suite) /\ suite.empty
        /\ ~suite.failed /\ ~suite.refused) =>
       /\ svc.entries = {}
       /\ suite.ids = {}
  /\ (suite.file = "part_003" /\ suite.after = "part_003" /\ ~suite.refused) =>
       /\ suite.empty
       /\ ~suite.failed

\* part_003 ran twice: the first run made five entries and deleted them, and
\* the second run has passed its opening check.
C29_Witness ==
  /\ suite.file = "part_003"
  /\ suite.after = "part_003"
  /\ suite.runs = 2
  /\ suite.pc = 3
  /\ suite.last.request = Part003[2]
  /\ ~suite.failed
  /\ ~suite.refused
  /\ svc.issued = 5
  /\ svc.entries = {}

====
